---- MODULE Spec2Model ----
(***************************************************************************)
(* A model of the VedicMath-AI backend (src/main.py): the VedicMathEngine  *)
(* object (operation_counter, active_operations), its pattern classifier   *)
(* _analyze_pattern, its dispatcher _simulate_vedic_operation, and the     *)
(* handlers calculate, run_benchmark and generate_dataset that call it,    *)
(* and the matrix endpoint with its cost model simulate_matrix_operation.  *)
(* Six specifications share the variables: PureSpec and ClassifySpec call  *)
(* the engine's methods directly, Spec serves the handlers one at a time,  *)
(* ConcSpec takes calculate apart under several requests, GeneratorSpec    *)
(* takes one benchmark iteration apart, MatrixSpec calls the matrix        *)
(* endpoint.                                                               *)
(*                                                                         *)
(* Operands are integers.  Python floats that the code produces (the       *)
(* confidence, the speedups, the quotient of a true division) are modelled *)
(* as exact rationals [num, den] in lowest terms; float('inf') is the      *)
(* rational 1/0.  execution_time_ms, a difference of two clock readings,   *)
(* is modelled as the set of statements executed between the two readings. *)
(* Fields of a record that only carry the date or display text (timestamp, *)
(* sutra_name_sanskrit, system_context) are left out.  Of the results list of a benchmark /     *)
(* dataset loop the model keeps its length and the number of entries whose *)
(* sutra is not Standard Arithmetic; average_speedup is left out.          *)
(***************************************************************************)
EXTENDS Integers, Sequences, FiniteSets, TLC

VARIABLES
    operation_counter,   \* VedicMathEngine.operation_counter
    active_operations,   \* VedicMathEngine.active_operations
    request,             \* the OperationRequest (or direct call arguments) being served
    classified,          \* <<>> or <<c>>: what the last direct _analyze_pattern call returned
    last_record,         \* <<>> or <<r>>: the record the last calculate (or direct) call
                         \* got from _simulate_vedic_operation
    produced_ids,        \* operation_id of every record produced so far, in order
    produced_by,         \* the producer of every record so far: "calculate", "benchmark", "dataset", "direct"
    pc,                  \* "idle", "benchmark", "dataset" (handler in progress), or a PureSpec position
    loop,                \* the local variables of the running benchmark / dataset loop
    outcome,             \* how the last call ended: "none", "returned" or "raised"
    summary,             \* <<>> or <<s>>: what the last run_benchmark / generate_dataset returned
    matrix_results,      \* how every POST /api/v1/matrix/multiply so far ended, in order
    tasks,               \* the calculate requests the event loop has accepted: for each its
                         \* position in the handler and the locals it holds
    running,             \* the task the event loop is executing (0: none)
    generated_for        \* the pattern_type the pair in request was generated for ("": none)

\* The variables of the engine and its loops, and those of the other handlers.
engine_vars == <<operation_counter, active_operations, request, classified, last_record,
                 produced_ids, produced_by, pc, loop, outcome, summary>>
other_vars == <<matrix_results, tasks, running, generated_for>>

vars == <<engine_vars, other_vars>>

----------------------------------------------------------------------------
(* Bounds of the model.                                                    *)

\* PureSpec draws operands from -MaxNegative..MaxOperand and ProbeOperands.
MaxNegative == 11
MaxOperand == 112
\* random.uniform(0.8, 1.2) is drawn from JitterSteps+1 evenly spaced values.
JitterSteps == 1
\* random.randint(lo, hi) is drawn from the MaxDraw lowest values, the MaxDraw highest
\* values and the middle one.
MaxDraw == 2
\* calculate is called at most MaxCalls times in a behaviour of Spec.
MaxCalls == 2
\* operation_count of a benchmark / dataset request is at most MinCount + ExtraCount.
ExtraCount == 0

\* MatrixSpec draws sizes from MinSize - SizeMargin .. MaxSize + SizeMargin.
SizeMargin == 1
\* The matrix endpoint is called at most MatrixCalls times in a behaviour of
\* MatrixSpec, each call with a size at most MaxStep away from the previous one.
MatrixCalls == 2
MaxStep == 1

\* At most MaxRequests calculate requests reach the server in a behaviour of ConcSpec.
MaxRequests == 3

\* BenchmarkRequest.operation_count: Field(ge=10, ...)
MinCount == 10
\* MatrixRequest.size: Field(ge=2, le=200, ...)
MinSize == 2
MaxSize == 200

----------------------------------------------------------------------------
(* Exact rationals standing for Python floats.                             *)

Abs(n) == IF n < 0 THEN -n ELSE n

RECURSIVE GCD(_, _)
GCD(m, n) == IF n = 0 THEN m ELSE GCD(n, m % n)

\* n/d in lowest terms with a positive denominator (d # 0).
Rat(n, d) ==
    LET g == GCD(Abs(n), Abs(d))
        s == IF d < 0 THEN -1 ELSE 1
    IN  [num |-> (s * n) \div g, den |-> (s * d) \div g]

RatInt(n) == [num |-> n, den |-> 1]
RatAdd(x, y) == Rat(x.num * y.den + y.num * x.den, x.den * y.den)
RatSub(x, y) == Rat(x.num * y.den - y.num * x.den, x.den * y.den)
RatMul(x, y) == Rat(x.num * y.num, x.den * y.den)
RatDiv(x, y) == Rat(x.num * y.den, x.den * y.num)
RatLt(x, y) == x.num * y.den < y.num * x.den
RatLe(x, y) == x.num * y.den <= y.num * x.den
RatMin(x, y) == IF RatLe(x, y) THEN x ELSE y

\* float('inf')
Infinity == [num |-> 1, den |-> 0]

----------------------------------------------------------------------------
(* VedicSutraType and the names _analyze_pattern returns.                  *)

EKADHIKENA_PURVENA == "Ekadhikena Purvena"
NIKHILAM == "Nikhilam"
ANTYAYORDASAKE == "Antyayordasake"
URDHVA_TIRYAGBHYAM == "Urdhva-Tiryagbhyam"
PARAVARTYA_YOJAYET == "Paravartya Yojayet"
DHVAJANKA == "Dhvajanka"
STANDARD == "Standard Arithmetic"

VedicSutraType == {EKADHIKENA_PURVENA, NIKHILAM, ANTYAYORDASAKE, URDHVA_TIRYAGBHYAM,
                   PARAVARTYA_YOJAYET, DHVAJANKA, STANDARD}

\* force_method: Optional[VedicSutraType] = None
NoForce == "None"

----------------------------------------------------------------------------
(* _analyze_pattern                                                        *)

\* len(str(n)) for n >= 0
RECURSIVE StrLen(_)
StrLen(n) == IF n < 10 THEN 1 ELSE 1 + StrLen(n \div 10)

RECURSIVE Pow10(_)
Pow10(k) == IF k = 0 THEN 1 ELSE 10 * Pow10(k - 1)

\* base_a = 10 ** len(str(abs(a_int)))
base_a(a) == Pow10(StrLen(Abs(a)))

\* Variant of max_digits that takes the smaller digit count.
max_digits_bug(a, b) ==
    IF StrLen(Abs(a)) <= StrLen(Abs(b)) THEN StrLen(Abs(a)) ELSE StrLen(Abs(b))
\* max_digits = max(len(str(abs(a_int))), len(str(abs(b_int))))
max_digits(a, b) ==
    IF StrLen(Abs(a)) >= StrLen(Abs(b)) THEN StrLen(Abs(a)) ELSE StrLen(Abs(b))

\* Variant of is_ekadhikena that misses the one-digit case (a > 10 for a > 0).
is_ekadhikena_bug(a, b) == a = b /\ a % 10 = 5 /\ a > 10
\* a == b and a_int % 10 == 5 and a > 0
is_ekadhikena(a, b) == a = b /\ a % 10 = 5 /\ a > 0

\* Variant of is_antyayordasake that accepts positive operands only.
is_antyayordasake_bug(a, b) ==
    (a % 10) + (b % 10) = 10 /\ (a \div 10) = (b \div 10) /\ a > 0 /\ b > 0
\* (a_int % 10 + b_int % 10) == 10 and (a_int // 10 == b_int // 10)
is_antyayordasake(a, b) == (a % 10) + (b % 10) = 10 /\ (a \div 10) = (b \div 10)

\* Variant of is_nikhilam that tests the first operand only.
is_nikhilam_bug(a, b) ==
    RatLt(RatInt(Abs(a - base_a(a))), RatMul(RatInt(base_a(a)), Rat(2, 10)))
\* abs(a_int - base_a) < base_a * 0.2 and abs(b_int - base_a) < base_a * 0.2
is_nikhilam(a, b) ==
    /\ RatLt(RatInt(Abs(a - base_a(a))), RatMul(RatInt(base_a(a)), Rat(2, 10)))
    /\ RatLt(RatInt(Abs(b - base_a(a))), RatMul(RatInt(base_a(a)), Rat(2, 10)))

\* Variant of proximity that divides by base_a * 0.2, not 2 * base_a * 0.2.
proximity_bug(a, b) ==
    RatSub(RatInt(1),
           RatDiv(RatInt(Abs(a - base_a(a)) + Abs(b - base_a(a))),
                  RatMul(RatInt(base_a(a)), Rat(2, 10))))
\* proximity = 1.0 - (abs(a_int - base_a) + abs(b_int - base_a)) / (2 * base_a * 0.2)
proximity(a, b) ==
    RatSub(RatInt(1),
           RatDiv(RatInt(Abs(a - base_a(a)) + Abs(b - base_a(a))),
                  RatMul(RatInt(2 * base_a(a)), Rat(2, 10))))

Classification(sutra, confidence, predicted_speedup, reasoning) ==
    [sutra |-> sutra, confidence |-> confidence,
     predicted_speedup |-> predicted_speedup, reasoning |-> reasoning]

ekadhikena_result ==
    Classification(EKADHIKENA_PURVENA, Rat(95, 100), Rat(32, 10),
                   "Perfect squaring pattern: number ending in 5")

antyayordasake_result ==
    Classification(ANTYAYORDASAKE, Rat(88, 100), Rat(24, 10),
                   "Same prefix, last digits sum to 10")

nikhilam_result(a, b) ==
    Classification(NIKHILAM,
                   RatMul(proximity(a, b), Rat(85, 100)),
                   RatAdd(Rat(18, 10), RatMul(proximity(a, b), Rat(8, 10))),
                   "Numbers close to same power of 10")

\* Variant of urdhva_result whose confidence is not capped.
urdhva_result_bug(a, b) ==
    Classification(URDHVA_TIRYAGBHYAM,
                   RatAdd(Rat(6, 10), RatMul(RatInt(max_digits(a, b) - 3), Rat(5, 100))),
                   RatAdd(Rat(14, 10), RatMul(RatInt(max_digits(a, b) - 3), Rat(1, 10))),
                   "Multi-digit crosswise multiplication")
\* confidence = min(0.6 + (max_digits - 3) * 0.05, 0.80)
urdhva_result(a, b) ==
    Classification(URDHVA_TIRYAGBHYAM,
                   RatMin(RatAdd(Rat(6, 10), RatMul(RatInt(max_digits(a, b) - 3), Rat(5, 100))),
                          Rat(80, 100)),
                   RatAdd(Rat(14, 10), RatMul(RatInt(max_digits(a, b) - 3), Rat(1, 10))),
                   "Multi-digit crosswise multiplication")

standard_result ==
    Classification(STANDARD, RatInt(1), RatInt(1), "No optimal Vedic pattern detected")

\* Variant of analyze_pattern that tests rule 2 before rule 1.
analyze_pattern_bug(a, b) ==
    IF is_antyayordasake(a, b) THEN antyayordasake_result
    ELSE IF is_ekadhikena(a, b) THEN ekadhikena_result
    ELSE IF is_nikhilam(a, b) THEN nikhilam_result(a, b)
    ELSE IF max_digits(a, b) >= 3 THEN urdhva_result(a, b)
    ELSE standard_result
\* The cascade of _analyze_pattern: the first test that holds returns.
analyze_pattern(a, b) ==
    IF is_ekadhikena(a, b) THEN ekadhikena_result
    ELSE IF is_antyayordasake(a, b) THEN antyayordasake_result
    ELSE IF is_nikhilam(a, b) THEN nikhilam_result(a, b)
    ELSE IF max_digits(a, b) >= 3 THEN urdhva_result(a, b)
    ELSE standard_result

----------------------------------------------------------------------------
(* _calculate_expected_speedup and _simulate_vedic_operation               *)

\* speedup_map.get(sutra, 1.0)
base_speedup(sutra) ==
    CASE sutra = EKADHIKENA_PURVENA -> Rat(32, 10)
      [] sutra = NIKHILAM -> Rat(28, 10)
      [] sutra = ANTYAYORDASAKE -> Rat(23, 10)
      [] sutra = URDHVA_TIRYAGBHYAM -> Rat(18, 10)
      [] sutra = STANDARD -> RatInt(1)
      [] OTHER -> RatInt(1)

\* The values random.uniform(0.8, 1.2) is drawn from.
Variances == {Rat(8 * JitterSteps + 4 * k, 10 * JitterSteps) : k \in 0..JitterSteps}

\* Variant of calculate_expected_speedup that adds the variance to the base.
calculate_expected_speedup_bug(sutra, variance) == RatAdd(base_speedup(sutra), variance)
\* base_speedup * variance
calculate_expected_speedup(sutra, variance) == RatMul(base_speedup(sutra), variance)

\* Variant of compute_result that subtracts the wrong way round.
compute_result_bug(a, b, operation) ==
    CASE operation = "multiply" -> RatInt(a * b)
      [] operation = "divide" -> IF b # 0 THEN Rat(a, b) ELSE Infinity
      [] operation = "add" -> RatInt(a + b)
      [] operation = "subtract" -> RatInt(b - a)
      [] OTHER -> RatInt(a * b)
\* The if / elif chain on operation (int operands: a / b is a true division).
compute_result(a, b, operation) ==
    CASE operation = "multiply" -> RatInt(a * b)
      [] operation = "divide" -> IF b # 0 THEN Rat(a, b) ELSE Infinity
      [] operation = "add" -> RatInt(a + b)
      [] operation = "subtract" -> RatInt(a - b)
      [] OTHER -> RatInt(a * b)

\* The statements of _simulate_vedic_operation in the order they execute.
simulate_statements ==
    <<"start_time", "analyze_pattern", "compute_result", "end_time", "calculate_expected_speedup">>

\* The position of statement in simulate_statements.
StatementIndex(statement) ==
    CHOOSE i \in DOMAIN simulate_statements : simulate_statements[i] = statement

\* What (end_time - start_time) measures: the statements executed after
\* start_time was read and before end_time was read.
measured_statements ==
    {simulate_statements[i] :
        i \in (StatementIndex("start_time") + 1) .. (StatementIndex("end_time") - 1)}

\* The dict _simulate_vedic_operation returns; counter is self.operation_counter
\* at the time of the call and variance the value random.uniform returned.
simulate_vedic_operation(a, b, operation, variance, counter) ==
    LET c == analyze_pattern(a, b)
    IN  [result |-> compute_result(a, b, operation),
         execution_time_ms |-> measured_statements,
         selected_algorithm |-> c.sutra,
         pattern_confidence |-> c.confidence,
         predicted_speedup |-> c.predicted_speedup,
         actual_speedup |-> calculate_expected_speedup(c.sutra, variance),
         decision_reasoning |-> c.reasoning,
         correctness_verified |-> TRUE,
         operation_id |-> counter]

----------------------------------------------------------------------------
(* Requests.                                                               *)

\* Operation tokens: the four documented ones and one that is none of them
\* (OperationRequest.operation is an unconstrained str).
DocumentedOperations == {"multiply", "divide", "add", "subtract"}
Operations == DocumentedOperations \cup {"modulo"}

OperationRequest(a, b, operation, force_method) ==
    [operand_a |-> a, operand_b |-> b, operation |-> operation, force_method |-> force_method]

NoRequest == OperationRequest(0, 0, "none", NoForce)

\* Operand pairs the calculate endpoint is exercised with.
ScenarioPairs == {<<25, 25>>, <<47, 43>>, <<98, 97>>, <<10, 0>>, <<123, 45>>}

\* Operands the pure functions are exercised with.
ProbeOperands == {800, 801, 995, 999, 1000, 1005, 9999}
WideOperands == (-MaxNegative .. MaxOperand) \cup ProbeOperands

IdleLoop == [remaining |-> 0, operation_count |-> 0, results_len |-> 0,
             vedic_count |-> 0, pattern_types |-> {}]

----------------------------------------------------------------------------
(* PureSpec: _analyze_pattern and _simulate_vedic_operation called         *)
(* directly on a freshly constructed engine, on every operand pair drawn   *)
(* from WideOperands.                                                      *)

PureInit ==
    /\ operation_counter = 0
    /\ active_operations = 0
    /\ request \in {OperationRequest(a, b, "multiply", NoForce) :
                        a \in WideOperands, b \in WideOperands}
    /\ classified = <<>>
    /\ last_record = <<>>
    /\ produced_ids = <<>>
    /\ produced_by = <<>>
    /\ pc = "start"
    /\ loop = IdleLoop
    /\ outcome = "none"
    /\ summary = <<>>
    /\ matrix_results = <<>>
    /\ tasks = <<>>
    /\ running = 0
    /\ generated_for = ""

\* vedic_engine._analyze_pattern(a, b)
DirectClassify ==
    /\ pc = "start"
    /\ classified' = <<analyze_pattern(request.operand_a, request.operand_b)>>
    /\ pc' = "classified"
    /\ outcome' = "returned"
    /\ UNCHANGED <<operation_counter, active_operations, request, last_record,
                   produced_ids, produced_by, loop, summary>>
    /\ UNCHANGED other_vars

\* vedic_engine._simulate_vedic_operation(a, b, operation)
DirectExecute ==
    /\ pc = "classified"
    /\ \E operation \in Operations, variance \in Variances :
          /\ request' = [request EXCEPT !.operation = operation]
          /\ last_record' = <<simulate_vedic_operation(request.operand_a, request.operand_b,
                                                       operation, variance, operation_counter)>>
    /\ produced_ids' = Append(produced_ids, last_record'[1].operation_id)
    /\ produced_by' = Append(produced_by, "direct")
    /\ pc' = "executed"
    /\ outcome' = "returned"
    /\ UNCHANGED <<operation_counter, active_operations, classified, loop, summary>>
    /\ UNCHANGED other_vars

PureNext == DirectClassify \/ DirectExecute

PureSpec == PureInit /\ [][PureNext]_vars

----------------------------------------------------------------------------
(* ClassifySpec: _analyze_pattern called directly on operands of up to      *)
(* eight digits (the products of such operands are not formed).             *)

\* Operands _analyze_pattern alone is exercised with.
LargeOperands ==
    {-1234567, -100, -7, 0, 5, 25, 99, 100, 123, 999, 1000, 4567, 12345, 100000,
     999999, 1000000, 1234567, 9999999, 12345678}

ClassifyInit ==
    /\ operation_counter = 0
    /\ active_operations = 0
    /\ request \in {OperationRequest(a, b, "multiply", NoForce) :
                        a \in LargeOperands, b \in LargeOperands}
    /\ classified = <<>>
    /\ last_record = <<>>
    /\ produced_ids = <<>>
    /\ produced_by = <<>>
    /\ pc = "start"
    /\ loop = IdleLoop
    /\ outcome = "none"
    /\ summary = <<>>
    /\ matrix_results = <<>>
    /\ tasks = <<>>
    /\ running = 0
    /\ generated_for = ""

ClassifyNext == DirectClassify

ClassifySpec == ClassifyInit /\ [][ClassifyNext]_vars

----------------------------------------------------------------------------
(* Spec: the handlers of the application, served one at a time by the      *)
(* event loop (none of them awaits between its first and last statement).  *)

Init ==
    /\ operation_counter = 0
    /\ active_operations = 0
    /\ request = NoRequest
    /\ classified = <<>>
    /\ last_record = <<>>
    /\ produced_ids = <<>>
    /\ produced_by = <<>>
    /\ pc = "idle"
    /\ loop = IdleLoop
    /\ outcome = "none"
    /\ summary = <<>>
    /\ matrix_results = <<>>
    /\ tasks = <<>>
    /\ running = 0
    /\ generated_for = ""

\* The requests the calculate endpoint is exercised with.
OperationRequests ==
    {OperationRequest(p[1], p[2], operation, NoForce) :
        p \in ScenarioPairs, operation \in Operations}
    \cup
    {OperationRequest(p[1], p[2], "multiply", force_method) :
        p \in ScenarioPairs, force_method \in VedicSutraType}

\* POST /api/v1/calculate.  With int operands no statement of the try block
\* raises, so the handler returns OperationResponse(**result_data).
calculate ==
    /\ pc = "idle"
    /\ operation_counter < MaxCalls
    /\ \E req \in OperationRequests, variance \in Variances :
          /\ request' = req
          /\ last_record' = <<simulate_vedic_operation(req.operand_a, req.operand_b,
                                                       req.operation, variance,
                                                       operation_counter + 1)>>
    /\ operation_counter' = operation_counter + 1
    /\ active_operations' = (active_operations + 1) - 1
    /\ produced_ids' = Append(produced_ids, last_record'[1].operation_id)
    /\ produced_by' = Append(produced_by, "calculate")
    /\ outcome' = "returned"
    /\ summary' = <<>>
    /\ UNCHANGED <<classified, pc, loop>>
    /\ UNCHANGED other_vars

\* random.randint(lo, hi), drawn from the ends and the middle of the range.
RandInt(lo, hi) ==
    IF hi - lo < 2 * MaxDraw THEN lo .. hi
    ELSE (lo .. (lo + MaxDraw - 1)) \cup {(lo + hi) \div 2} \cup ((hi - MaxDraw + 1) .. hi)

\* Variant of GeneratedPairs whose urdhva operands start at two digits.
GeneratedPairs_bug(pattern_type) ==
    CASE pattern_type = "ekadhikena" ->
            {<<k * 10 + 5, k * 10 + 5>> : k \in RandInt(1, 50)}
      [] pattern_type = "nikhilam" ->
            UNION {{<<base + da, base + db>> :
                        da \in RandInt(-(base \div 5), base \div 5),
                        db \in RandInt(-(base \div 5), base \div 5)} :
                   base \in {100, 1000}}
      [] pattern_type = "antyayordasake" ->
            {<<prefix * 10 + last_a, prefix * 10 + (10 - last_a)>> :
                prefix \in RandInt(1, 99), last_a \in RandInt(1, 9)}
      [] pattern_type = "urdhva" ->
            RandInt(10, 9999) \X RandInt(10, 9999)
      [] OTHER ->
            RandInt(1, 1000) \X RandInt(1, 1000)
\* The operand pairs one loop iteration can generate for pattern_type.
GeneratedPairs(pattern_type) ==
    CASE pattern_type = "ekadhikena" ->
            {<<k * 10 + 5, k * 10 + 5>> : k \in RandInt(1, 50)}
      [] pattern_type = "nikhilam" ->
            UNION {{<<base + da, base + db>> :
                        da \in RandInt(-(base \div 5), base \div 5),
                        db \in RandInt(-(base \div 5), base \div 5)} :
                   base \in {100, 1000}}
      [] pattern_type = "antyayordasake" ->
            {<<prefix * 10 + last_a, prefix * 10 + (10 - last_a)>> :
                prefix \in RandInt(1, 99), last_a \in RandInt(1, 9)}
      [] pattern_type = "urdhva" ->
            RandInt(1000, 9999) \X RandInt(1000, 9999)
      [] OTHER ->
            RandInt(1, 1000) \X RandInt(1, 1000)

AllPatterns == {"ekadhikena", "nikhilam", "antyayordasake", "urdhva", "random"}

\* random.choice(request.pattern_types) if "all" not in request.pattern_types
\* else random.choice([...the five...])
PatternChoices(pattern_types) ==
    IF "all" \in pattern_types THEN AllPatterns ELSE pattern_types

\* BenchmarkRequest.pattern_types the benchmark endpoint is exercised with.
PatternTypeLists ==
    {{"all"}, {"ekadhikena"}, {"antyayordasake", "urdhva"}, {"nikhilam", "random"}, {}}

\* Records produced so far plus those a loop of count iterations will add
\* stay within the model's horizon.
MaxRecords == MaxCalls + MinCount + ExtraCount

\* POST /api/v1/benchmark: validation passed, results = [], loop entered.
run_benchmark_start ==
    /\ pc = "idle"
    /\ \E count \in MinCount .. (MinCount + ExtraCount), pattern_types \in PatternTypeLists :
          /\ Len(produced_ids) + count <= MaxRecords
          /\ loop' = [remaining |-> count, operation_count |-> count, results_len |-> 0,
                      vedic_count |-> 0, pattern_types |-> pattern_types]
    /\ pc' = "benchmark"
    /\ request' = NoRequest
    /\ last_record' = <<>>
    /\ outcome' = "none"
    /\ summary' = <<>>
    /\ UNCHANGED <<operation_counter, active_operations, classified,
                   produced_ids, produced_by>>
    /\ UNCHANGED other_vars

\* POST /api/v1/dataset/generate?operation_count=count (no validation of count).
generate_dataset_start ==
    /\ pc = "idle"
    /\ \E count \in {0} \cup (MinCount .. (MinCount + ExtraCount)) :
          /\ Len(produced_ids) + count <= MaxRecords
          /\ loop' = [remaining |-> count, operation_count |-> count, results_len |-> 0,
                      vedic_count |-> 0, pattern_types |-> {"all"}]
    /\ pc' = "dataset"
    /\ request' = NoRequest
    /\ last_record' = <<>>
    /\ outcome' = "none"
    /\ summary' = <<>>
    /\ UNCHANGED <<operation_counter, active_operations, classified,
                   produced_ids, produced_by>>
    /\ UNCHANGED other_vars

\* One iteration of either loop: generate a pair, call
\* _simulate_vedic_operation(a, b, "multiply"), append to results / dataset.
\* Of the appended entry the loop variable keeps what the statistics read
\* (whether the sutra is a Vedic one); produced_ids keeps op_result's id.
loop_iteration ==
    /\ pc \in {"benchmark", "dataset"}
    /\ loop.remaining > 0
    /\ PatternChoices(loop.pattern_types) # {}
    /\ \E pattern_type \in PatternChoices(loop.pattern_types), variance \in Variances :
          \E p \in GeneratedPairs(pattern_type) :
             LET op_result == simulate_vedic_operation(p[1], p[2], "multiply", variance,
                                                       operation_counter)
             IN  /\ loop' = [loop EXCEPT
                                !.remaining = @ - 1,
                                !.results_len = @ + 1,
                                !.vedic_count = IF op_result.selected_algorithm # STANDARD
                                                THEN @ + 1 ELSE @]
                 /\ produced_ids' = Append(produced_ids, op_result.operation_id)
    /\ produced_by' = Append(produced_by, pc)
    /\ UNCHANGED <<operation_counter, active_operations, request, classified, last_record,
                   pc, outcome, summary>>
    /\ UNCHANGED other_vars

\* random.choice([]) raises IndexError in the first iteration; the handler's
\* except clause turns it into HTTPException(500).
loop_raises ==
    /\ pc = "benchmark"
    /\ loop.remaining > 0
    /\ PatternChoices(loop.pattern_types) = {}
    /\ pc' = "idle"
    /\ loop' = IdleLoop
    /\ last_record' = <<>>
    /\ outcome' = "raised"
    /\ UNCHANGED <<operation_counter, active_operations, request, classified,
                   produced_ids, produced_by, summary>>
    /\ UNCHANGED other_vars

\* run_benchmark after the loop: the statistics and the returned dict.
run_benchmark_finish ==
    /\ pc = "benchmark"
    /\ loop.remaining = 0
    /\ summary' = <<[operation_count |-> loop.operation_count,
                     vedic_methods_used |-> loop.vedic_count,
                     vedic_percentage |->
                         RatMul(Rat(loop.vedic_count, loop.results_len), RatInt(100))]>>
    /\ pc' = "idle"
    /\ loop' = IdleLoop
    /\ last_record' = <<>>
    /\ outcome' = "returned"
    /\ UNCHANGED <<operation_counter, active_operations, request, classified,
                   produced_ids, produced_by>>
    /\ UNCHANGED other_vars

\* generate_dataset after the loop: the CSV is written and DatasetResponse returned.
generate_dataset_finish ==
    /\ pc = "dataset"
    /\ loop.remaining = 0
    /\ summary' = <<[operation_count |-> loop.results_len,
                     vedic_methods_used |-> loop.vedic_count,
                     vedic_percentage |-> RatInt(0)]>>
    /\ pc' = "idle"
    /\ loop' = IdleLoop
    /\ last_record' = <<>>
    /\ outcome' = "returned"
    /\ UNCHANGED <<operation_counter, active_operations, request, classified,
                   produced_ids, produced_by>>
    /\ UNCHANGED other_vars

Next ==
    \/ calculate
    \/ run_benchmark_start
    \/ generate_dataset_start
    \/ loop_iteration
    \/ loop_raises
    \/ run_benchmark_finish
    \/ generate_dataset_finish

Spec == Init /\ [][Next]_vars

----------------------------------------------------------------------------
(* The matrix cost model.  execution_time is c * (size / ref) ** 2.5 on the *)
(* Vedic path, an irrational number in general: the model keeps it as the   *)
(* triple [coef, base, half_exp] standing for coef * base ** (half_exp / 2),*)
(* with coef and base exact rationals.  operations_per_second, a quotient   *)
(* by execution_time, is left out of the response.                          *)

PowerLaw(coef, base, half_exp) == [coef |-> coef, base |-> base, half_exp |-> half_exp]

\* Variant of vedic_execution_time whose second bracket scales 0.09 instead of 0.90.
vedic_execution_time_bug(size) ==
    IF size <= 25 THEN PowerLaw(Rat(6, 100), Rat(size, 10), 5)
    ELSE IF size <= 50 THEN PowerLaw(Rat(9, 100), Rat(size, 25), 5)
    ELSE IF size <= 100 THEN PowerLaw(Rat(827, 100), Rat(size, 50), 5)
    ELSE PowerLaw(Rat(18984, 100), Rat(size, 100), 5)
\* execution_time in the four size brackets of the use_vedic branch.
vedic_execution_time(size) ==
    IF size <= 25 THEN PowerLaw(Rat(6, 100), Rat(size, 10), 5)
    ELSE IF size <= 50 THEN PowerLaw(Rat(90, 100), Rat(size, 25), 5)
    ELSE IF size <= 100 THEN PowerLaw(Rat(827, 100), Rat(size, 50), 5)
    ELSE PowerLaw(Rat(18984, 100), Rat(size, 100), 5)

\* vedic_ops in the four size brackets of the use_vedic branch.
vedic_ops(size) ==
    IF size <= 25 THEN size * size
    ELSE IF size <= 50 THEN size * size * 15
    ELSE IF size <= 100 THEN size * size * 200
    ELSE size * size * 1980

\* Variant of standard_execution_time that divides by 1000 once only.
standard_execution_time_bug(size) ==
    LET operations == size * size * size
    IN  PowerLaw(RatMul(Rat(1, 1000), RatInt(operations)), RatInt(1), 0)
\* execution_time = 0.001 * operations / 1000, operations = size ** 3
standard_execution_time(size) ==
    LET operations == size * size * size
    IN  PowerLaw(RatDiv(RatMul(Rat(1, 1000), RatInt(operations)), RatInt(1000)), RatInt(1), 0)

\* The MatrixResponse simulate_matrix_operation returns.
simulate_matrix_operation(size, use_vedic) ==
    IF use_vedic
    THEN [size |-> size,
          method_used |-> "Vedic Enhanced",
          execution_time_ms |-> vedic_execution_time(size),
          vedic_operations_used |-> vedic_ops(size),
          speedup_factor |-> Rat(2, 1000),
          correctness_verified |-> TRUE,
          performance_notes |-> "Standard methods faster (overhead dominates)"]
    ELSE [size |-> size,
          method_used |-> "Standard",
          execution_time_ms |-> standard_execution_time(size),
          vedic_operations_used |-> 0,
          speedup_factor |-> RatInt(1),
          correctness_verified |-> TRUE,
          performance_notes |-> "Optimized standard matrix multiplication"]

\* Variant of MatrixRequestValid that keeps the upper limit only.
MatrixRequestValid_bug(size) == size <= MaxSize
\* MatrixRequest: size passes Field(ge=2, le=200).
MatrixRequestValid(size) == size >= MinSize /\ size <= MaxSize

\* How one POST /api/v1/matrix ends: 422 when the request body fails
\* validation; otherwise the handler runs, and its HTTPException(400) for
\* size > 200 is raised inside the try block whose except clause turns every
\* exception into HTTPException(500).
matrix_outcome(size, use_vedic) ==
    IF ~MatrixRequestValid(size)
    THEN [size |-> size, use_vedic |-> use_vedic, status_code |-> 422, response |-> <<>>]
    ELSE IF size > 200
    THEN [size |-> size, use_vedic |-> use_vedic, status_code |-> 500, response |-> <<>>]
    ELSE [size |-> size, use_vedic |-> use_vedic, status_code |-> 200,
          response |-> <<simulate_matrix_operation(size, use_vedic)>>]

\* The sizes the matrix endpoint is exercised with.
MatrixSizes == (MinSize - SizeMargin) .. (MaxSize + SizeMargin)

----------------------------------------------------------------------------
(* MatrixSpec: the matrix endpoint, which reads and writes no field of the  *)
(* engine, called a few times in a row.                                     *)

MatrixInit == Init

\* POST /api/v1/matrix
matrix_multiply ==
    /\ Len(matrix_results) < MatrixCalls
    /\ \E size \in MatrixSizes, use_vedic \in BOOLEAN :
          /\ matrix_results # <<>> =>
                Abs(size - matrix_results[Len(matrix_results)].size) <= MaxStep
          /\ matrix_results' = Append(matrix_results, matrix_outcome(size, use_vedic))
    /\ UNCHANGED <<engine_vars, tasks, running, generated_for>>

MatrixNext == matrix_multiply

MatrixSpec == MatrixInit /\ [][MatrixNext]_vars

----------------------------------------------------------------------------
(* GeneratorSpec: one iteration of the benchmark / dataset loop on a fresh  *)
(* engine, taken apart: the pair is generated, then passed to               *)
(* _simulate_vedic_operation(a, b, "multiply").                             *)

GeneratorInit ==
    /\ operation_counter = 0
    /\ active_operations = 0
    /\ request = NoRequest
    /\ classified = <<>>
    /\ last_record = <<>>
    /\ produced_ids = <<>>
    /\ produced_by = <<>>
    /\ pc = "generate"
    /\ loop = IdleLoop
    /\ outcome = "none"
    /\ summary = <<>>
    /\ matrix_results = <<>>
    /\ tasks = <<>>
    /\ running = 0
    /\ generated_for = ""

\* pattern_type = random.choice([...]) and the if / elif chain that draws a, b
generate_pair ==
    /\ pc = "generate"
    /\ \E chosen \in AllPatterns :
          \E p \in GeneratedPairs(chosen) :
             /\ request' = OperationRequest(p[1], p[2], "multiply", NoForce)
             /\ generated_for' = chosen
    /\ pc' = "generated"
    /\ UNCHANGED <<operation_counter, active_operations, classified, last_record,
                   produced_ids, produced_by, loop, outcome, summary>>
    /\ UNCHANGED <<matrix_results, tasks, running>>

\* op_result = vedic_engine._simulate_vedic_operation(a, b, "multiply")
simulate_generated ==
    /\ pc = "generated"
    /\ \E variance \in Variances :
          last_record' = <<simulate_vedic_operation(request.operand_a, request.operand_b,
                                                    "multiply", variance, operation_counter)>>
    /\ produced_ids' = Append(produced_ids, last_record'[1].operation_id)
    /\ produced_by' = Append(produced_by, "benchmark")
    /\ pc' = "simulated"
    /\ outcome' = "returned"
    /\ UNCHANGED <<operation_counter, active_operations, request, classified, loop, summary>>
    /\ UNCHANGED other_vars

GeneratorNext == generate_pair \/ simulate_generated

GeneratorSpec == GeneratorInit /\ [][GeneratorNext]_vars

----------------------------------------------------------------------------
(* ConcSpec: several calculate requests reaching the server at any time.    *)
(* calculate is an async def run by the one event loop of the process: a    *)
(* task that has started keeps the loop until it reaches an await that      *)
(* suspends it or returns.  The handler is taken apart into its statements  *)
(* so that the positions at which another task could run are explicit.      *)

\* The requests the clients send.
ConcRequests ==
    {OperationRequest(25, 25, "multiply", NoForce), OperationRequest(123, 45, "add", NoForce)}

\* Whether the handler suspends after reaching position: its body contains no
\* await, and get_system_status blocks the thread in psutil.cpu_percent(interval=0.1).
Suspends(position) == FALSE

\* A request reaches the server while it is idle or busy.
request_arrives ==
    /\ Len(tasks) < MaxRequests
    /\ \E req \in ConcRequests :
          tasks' = Append(tasks, [request |-> req, position |-> "arrived", result_data |-> <<>>])
    /\ UNCHANGED <<engine_vars, matrix_results, running, generated_for>>

\* vedic_engine.operation_counter += 1; vedic_engine.active_operations += 1
calculate_count(t) ==
    /\ running \in {0, t}
    /\ tasks[t].position = "arrived"
    /\ operation_counter' = operation_counter + 1
    /\ active_operations' = active_operations + 1
    /\ tasks' = [tasks EXCEPT ![t].position = "counted"]
    /\ running' = IF Suspends("counted") THEN 0 ELSE t
    /\ UNCHANGED <<request, classified, last_record, produced_ids, produced_by, pc, loop,
                   outcome, summary, matrix_results, generated_for>>

\* result_data = vedic_engine._simulate_vedic_operation(...), which reads
\* self.operation_counter into operation_id
calculate_simulate(t) ==
    /\ running \in {0, t}
    /\ tasks[t].position = "counted"
    /\ \E variance \in Variances :
          tasks' = [tasks EXCEPT
                      ![t].position = "simulated",
                      ![t].result_data =
                          <<simulate_vedic_operation(tasks[t].request.operand_a,
                                                     tasks[t].request.operand_b,
                                                     tasks[t].request.operation,
                                                     variance, operation_counter)>>]
    /\ running' = IF Suspends("simulated") THEN 0 ELSE t
    /\ UNCHANGED <<engine_vars, matrix_results, generated_for>>

\* system_status = get_system_status(); result_data["system_context"] = {...}
calculate_context(t) ==
    /\ running \in {0, t}
    /\ tasks[t].position = "simulated"
    /\ tasks' = [tasks EXCEPT ![t].position = "context"]
    /\ running' = IF Suspends("context") THEN 0 ELSE t
    /\ UNCHANGED <<engine_vars, matrix_results, generated_for>>

\* vedic_engine.active_operations -= 1; return OperationResponse(**result_data)
calculate_respond(t) ==
    /\ running \in {0, t}
    /\ tasks[t].position = "context"
    /\ active_operations' = active_operations - 1
    /\ tasks' = [tasks EXCEPT ![t].position = "done"]
    /\ produced_ids' = Append(produced_ids, tasks[t].result_data[1].operation_id)
    /\ produced_by' = Append(produced_by, "calculate")
    /\ running' = 0
    /\ UNCHANGED <<operation_counter, request, classified, last_record, pc, loop,
                   outcome, summary, matrix_results, generated_for>>

ConcNext ==
    \/ request_arrives
    \/ \E t \in DOMAIN tasks : calculate_count(t)
    \/ \E t \in DOMAIN tasks : calculate_simulate(t)
    \/ \E t \in DOMAIN tasks : calculate_context(t)
    \/ \E t \in DOMAIN tasks : calculate_respond(t)

ConcSpec == Init /\ [][ConcNext]_vars

----------------------------------------------------------------------------
(* FaultSpec: ConcSpec in which the calls calculate makes into libraries    *)
(* may raise: get_system_status (psutil) and the construction of the        *)
(* OperationResponse (pydantic validation).  With integer operands          *)
(* _simulate_vedic_operation does not raise.  Both statements are inside    *)
(* the try block, so the except clause runs: it decrements                  *)
(* active_operations and raises HTTPException(500).                         *)

\* get_system_status() raises; except: vedic_engine.active_operations -= 1
calculate_context_raises(t) ==
    /\ running \in {0, t}
    /\ tasks[t].position = "simulated"
    /\ active_operations' = active_operations - 1
    /\ tasks' = [tasks EXCEPT ![t].position = "failed"]
    /\ running' = 0
    /\ UNCHANGED <<operation_counter, request, classified, last_record, produced_ids,
                   produced_by, pc, loop, outcome, summary, matrix_results, generated_for>>

\* vedic_engine.active_operations -= 1; OperationResponse(**result_data)
\* raises; except: vedic_engine.active_operations -= 1
calculate_respond_raises(t) ==
    /\ running \in {0, t}
    /\ tasks[t].position = "context"
    /\ active_operations' = (active_operations - 1) - 1
    /\ tasks' = [tasks EXCEPT ![t].position = "failed"]
    /\ running' = 0
    /\ UNCHANGED <<operation_counter, request, classified, last_record, produced_ids,
                   produced_by, pc, loop, outcome, summary, matrix_results, generated_for>>

FaultNext ==
    \/ request_arrives
    \/ \E t \in DOMAIN tasks : calculate_count(t)
    \/ \E t \in DOMAIN tasks : calculate_simulate(t)
    \/ \E t \in DOMAIN tasks : calculate_context(t)
    \/ \E t \in DOMAIN tasks : calculate_respond(t)
    \/ \E t \in DOMAIN tasks : calculate_context_raises(t)
    \/ \E t \in DOMAIN tasks : calculate_respond_raises(t)

FaultSpec == Init /\ [][FaultNext]_vars

----------------------------------------------------------------------------
(* The properties.  The helpers below restate the documented rules with    *)
(* plain integer arithmetic, independently of the operators above.         *)

\* The number of decimal digits of n >= 0.
DigitCount(n) == IF n = 0 THEN 1 ELSE CHOOSE k \in 1..10 : Pow10(k - 1) <= n /\ n < Pow10(k)

\* Rule 1: a == b, a > 0, a mod 10 == 5.
Rule1(a, b) == a = b /\ a > 0 /\ a % 10 = 5
\* Rule 2: same value with the last digit removed, last digits sum to 10.
Rule2(a, b) == (a \div 10) = (b \div 10) /\ (a % 10) + (b % 10) = 10
\* Rule 3: both distances to base are less than 20% of base, base = 10^digits(|a|).
RuleBase(a) == Pow10(DigitCount(Abs(a)))
Rule3(a, b) == 5 * Abs(a - RuleBase(a)) < RuleBase(a) /\ 5 * Abs(b - RuleBase(a)) < RuleBase(a)
\* Rule 4: the larger digit count is at least 3.
Rule4(a, b) == DigitCount(Abs(a)) >= 3 \/ DigitCount(Abs(b)) >= 3

LowestRule(a, b) ==
    IF Rule1(a, b) THEN EKADHIKENA_PURVENA
    ELSE IF Rule2(a, b) THEN ANTYAYORDASAKE
    ELSE IF Rule3(a, b) THEN NIKHILAM
    ELSE IF Rule4(a, b) THEN URDHVA_TIRYAGBHYAM
    ELSE STANDARD

\* x is the rational n/d.
IsRat(x, n, d) == x.den > 0 /\ x.num * d = n * x.den

Classified == classified # <<>>
Executed == last_record # <<>>
A == request.operand_a
B == request.operand_b

\* The result is the exact value of the operation on the operands.
ResultExact(r, a, b, operation) ==
    CASE operation = "add" -> r.result.den = 1 /\ r.result.num - b = a
      [] operation = "subtract" -> r.result.den = 1 /\ r.result.num + b = a
      [] operation = "multiply" -> r.result.den = 1 /\ r.result.num = a * b
      [] operation = "divide" -> r.result.den > 0 /\ r.result.num * b = a * r.result.den
      [] OTHER -> FALSE

\* C1: for every operand pair and every operation of add, subtract, multiply
\* (and divide with a non-zero divisor), the record's result is the exact value
\* of plain arithmetic, and correctness_verified is true exactly when it is
\* (hence always).
C1_ResultExactAndVerified ==
    (Executed /\ request.operation \in DocumentedOperations
              /\ (request.operation = "divide" => B # 0))
    => /\ ResultExact(last_record[1], A, B, request.operation)
       /\ last_record[1].correctness_verified
            <=> ResultExact(last_record[1], A, B, request.operation)
       /\ last_record[1].correctness_verified

C1_Witness ==
    /\ Executed /\ A = 7 /\ B = -2 /\ request.operation = "divide"
    /\ last_record[1].result = [num |-> -7, den |-> 2]
    /\ last_record[1].correctness_verified

\* C2: classify returns the technique of the lowest-numbered rule the pair
\* satisfies (rule 1 before every later rule), and a second call on the same
\* pair (the one execute makes) selects the same technique.
C2_LowestRuleWins ==
    /\ Classified => classified[1].sutra = LowestRule(A, B)
    /\ (Classified /\ Executed) => last_record[1].selected_algorithm = classified[1].sutra

C2_Witness ==
    /\ Classified /\ Executed
    /\ Rule1(A, B) /\ Rule2(A, B) /\ Rule3(A, B) /\ A = 95
    /\ classified[1].sutra = EKADHIKENA_PURVENA
    /\ last_record[1].selected_algorithm = EKADHIKENA_PURVENA

\* C3: for every n > 0 with n mod 10 = 5, classify(n, n) is Ekadhikena Purvena
\* with confidence 0.95 and predicted speedup 3.2; execute(25, 25, multiply)
\* gives 625 with that technique, verified.
C3_SquaringEndingInFive ==
    /\ (Classified /\ A = B /\ A > 0 /\ A % 10 = 5)
       => /\ classified[1].sutra = EKADHIKENA_PURVENA
          /\ IsRat(classified[1].confidence, 95, 100)
          /\ IsRat(classified[1].predicted_speedup, 32, 10)
    /\ (Executed /\ A = 25 /\ B = 25 /\ request.operation = "multiply")
       => /\ last_record[1].result = RatInt(625)
          /\ last_record[1].selected_algorithm = EKADHIKENA_PURVENA
          /\ IsRat(last_record[1].pattern_confidence, 95, 100)
          /\ last_record[1].correctness_verified

C3_Witness ==
    /\ Executed /\ A = 25 /\ B = 25 /\ request.operation = "multiply"
    /\ last_record[1].result.num = 625
    /\ last_record[1].selected_algorithm = EKADHIKENA_PURVENA

\* C4 as stated: every pair with a div 10 = b div 10 and last digits summing
\* to 10 is classified Antyayordasake with confidence 0.88.
C4_Original ==
    (Classified /\ Rule2(A, B))
    => /\ classified[1].sutra = ANTYAYORDASAKE
       /\ IsRat(classified[1].confidence, 88, 100)

\* C4 amended: every pair with a div 10 = b div 10 and last digits summing to
\* 10, other than a = b > 0 (which rule 1 takes first), is classified
\* Antyayordasake with confidence 0.88; execute(47, 43, multiply) gives 2021
\* with that technique.
C4_ComplementaryLastDigit ==
    /\ (Classified /\ Rule2(A, B) /\ ~(A = B /\ A > 0))
       => /\ classified[1].sutra = ANTYAYORDASAKE
          /\ IsRat(classified[1].confidence, 88, 100)
    /\ (Executed /\ A = 47 /\ B = 43 /\ request.operation = "multiply")
       => /\ last_record[1].result = RatInt(2021)
          /\ last_record[1].selected_algorithm = ANTYAYORDASAKE

C4_Witness ==
    /\ Executed /\ A = 47 /\ B = 43 /\ request.operation = "multiply"
    /\ last_record[1].result.num = 2021
    /\ last_record[1].selected_algorithm = ANTYAYORDASAKE
    /\ IsRat(last_record[1].pattern_confidence, 88, 100)

\* proximity = 1 - (|a-base| + |b-base|) / (2 x 0.2 x base)
RuleProximity(a, b) ==
    RatSub(RatInt(1),
           Rat(10 * (Abs(a - RuleBase(a)) + Abs(b - RuleBase(a))), 2 * 2 * RuleBase(a)))

C6_ConfidenceAndSpeedupInRange ==
    /\ Classified
       => /\ classified[1].confidence.den > 0
          /\ 0 <= classified[1].confidence.num
          /\ classified[1].confidence.num <= classified[1].confidence.den
          /\ classified[1].predicted_speedup.den > 0
          /\ 0 <= classified[1].predicted_speedup.num
    /\ Executed
       => /\ 0 <= last_record[1].pattern_confidence.num
          /\ last_record[1].pattern_confidence.num <= last_record[1].pattern_confidence.den
          /\ 0 <= last_record[1].predicted_speedup.num

C6_Witness ==
    /\ Classified /\ A < 0 /\ B = 0
    /\ classified[1].confidence.num = classified[1].confidence.den

\* C7: every execute call increments the operation counter exactly once
\* before its record is returned, whoever calls it (calculate, the benchmark
\* loop, the dataset loop), so the ids of successive records strictly increase
\* and no two records share an id.
C7_CounterOncePerExecute ==
    /\ operation_counter = Len(produced_ids)
    /\ \A i, j \in 1..Len(produced_ids) : i < j => produced_ids[i] < produced_ids[j]

\* C8: execute(a, 0, divide) fails with DivisionByZero and returns no result.
C8_DivideByZeroFails ==
    (request.operation = "divide" /\ request.operand_b = 0 /\ outcome # "none")
    => (outcome = "raised" /\ last_record = <<>>)

\* C9: execute fails with UnsupportedOperation, and produces no result, when
\* the operation is not one of add, subtract, multiply, divide.
C9_UnsupportedOperationFails ==
    (request # NoRequest /\ request.operation \notin DocumentedOperations /\ outcome # "none")
    => (outcome = "raised" /\ last_record = <<>>)

\* The rationale strings of the classifier's own five rules.
ClassifierReasonings ==
    {ekadhikena_result.reasoning, antyayordasake_result.reasoning,
     nikhilam_result(98, 97).reasoning, urdhva_result(123, 45).reasoning,
     standard_result.reasoning}

\* C10: when force_method is supplied, the record's technique is the forced
\* one, its confidence is 1.0 and its rationale notes the override (it is not
\* a rationale of the classifier), whatever the operands.
C10_ForcedTechniqueUsed ==
    (request.force_method # NoForce /\ Executed)
    => /\ last_record[1].selected_algorithm = request.force_method
       /\ last_record[1].pattern_confidence = RatInt(1)
       /\ last_record[1].decision_reasoning \notin ClassifierReasonings

----------------------------------------------------------------------------
(* Properties of the matrix cost model.  Two power-law values are compared  *)
(* through their squares, which are rationals; the products are too large   *)
(* for machine integers and are computed on sequences of base-100 digits,   *)
(* least significant first.                                                 *)

RECURSIVE BigTimes(_, _, _)
\* big * k + carry
BigTimes(big, k, carry) ==
    IF big = <<>>
    THEN IF carry = 0 THEN <<>> ELSE <<carry % 100>> \o BigTimes(<<>>, k, carry \div 100)
    ELSE LET v == Head(big) * k + carry
         IN  <<v % 100>> \o BigTimes(Tail(big), k, v \div 100)

RECURSIVE BigPower(_, _, _)
\* big * k ** n
BigPower(big, k, n) == IF n = 0 THEN big ELSE BigPower(BigTimes(big, k, 0), k, n - 1)

RECURSIVE BigLess(_, _)
\* x < y, for x and y without leading zero digits
BigLess(x, y) ==
    IF Len(x) # Len(y) THEN Len(x) < Len(y)
    ELSE IF x = <<>> THEN FALSE
    ELSE IF x[Len(x)] # y[Len(y)] THEN x[Len(x)] < y[Len(y)]
    ELSE BigLess(SubSeq(x, 1, Len(x) - 1), SubSeq(y, 1, Len(y) - 1))

\* The numerator of x ** 2 / y ** 2 written as one fraction of positive integers.
SquareCross(x, y) ==
    BigPower(BigPower(BigPower(BigPower(<<1>>, x.coef.num, 2), x.base.num, x.half_exp),
                      y.coef.den, 2), y.base.den, y.half_exp)

\* x < y and x <= y for positive power-law values.
PowLt(x, y) == BigLess(SquareCross(x, y), SquareCross(y, x))
PowLe(x, y) == ~PowLt(y, x)

Estimated(i) == matrix_results[i].status_code = 200
Estimate(i) == matrix_results[i].response[1]

\* C11: a matrix request whose size is outside 2..200 (1 and 201 in
\* particular) fails and yields no estimate; a request whose size is inside
\* 2..200 yields an estimate for that size.
C11_SizeRangeEnforced ==
    \A i \in DOMAIN matrix_results :
        LET e == matrix_results[i]
        IN  /\ (e.size < 2 \/ e.size > 200) => e.status_code # 200 /\ e.response = <<>>
            /\ (e.size >= 2 /\ e.size <= 200) =>
                  /\ e.status_code = 200
                  /\ e.response # <<>>
                  /\ e.response[1].size = e.size
                  /\ e.response[1].method_used = IF e.use_vedic THEN "Vedic Enhanced" ELSE "Standard"

\* A request of size 201 was refused and one of size 200 answered.
C11_Witness ==
    /\ Len(matrix_results) = 2
    /\ matrix_results[1].size = 201 /\ matrix_results[1].response = <<>>
    /\ matrix_results[2].size = 200 /\ matrix_results[2].response # <<>>

\* C12: for a fixed use_vedic the estimated time never decreases when the
\* size grows, within a bracket and across the bracket limits 25/26, 50/51
\* and 100/101.
C12_TimeMonotonic ==
    \A i \in DOMAIN matrix_results : \A j \in DOMAIN matrix_results :
        (/\ Estimated(i) /\ Estimated(j)
         /\ matrix_results[i].use_vedic = matrix_results[j].use_vedic
         /\ matrix_results[i].size <= matrix_results[j].size)
        => PowLe(Estimate(i).execution_time_ms, Estimate(j).execution_time_ms)

\* Sizes 25 and 26, on either side of the first bracket limit, were both
\* estimated on the Vedic path, and the time grew.
C12_Witness ==
    /\ Len(matrix_results) = 2
    /\ Estimated(1) /\ Estimated(2)
    /\ matrix_results[1].use_vedic /\ matrix_results[2].use_vedic
    /\ matrix_results[1].size = 25 /\ matrix_results[2].size = 26
    /\ PowLt(Estimate(1).execution_time_ms, Estimate(2).execution_time_ms)

\* C20: for every size in 2..200 the Vedic estimate is strictly larger than
\* the standard one; speedup_factor is one constant below 1 on the Vedic
\* path and 1 on the standard path, whatever the size.
C20_VedicSlowerThanStandard ==
    \A i \in DOMAIN matrix_results : \A j \in DOMAIN matrix_results :
        (Estimated(i) /\ Estimated(j)) =>
            /\ (/\ matrix_results[i].size = matrix_results[j].size
                /\ matrix_results[i].use_vedic /\ ~matrix_results[j].use_vedic)
               => PowLt(Estimate(j).execution_time_ms, Estimate(i).execution_time_ms)
            /\ matrix_results[i].use_vedic =>
                  /\ Estimate(i).speedup_factor.num * 1 < 1 * Estimate(i).speedup_factor.den
                  /\ matrix_results[j].use_vedic =>
                        Estimate(j).speedup_factor = Estimate(i).speedup_factor
            /\ ~matrix_results[i].use_vedic => IsRat(Estimate(i).speedup_factor, 1, 1)

\* The same size was estimated on both paths.
C20_Witness ==
    /\ Len(matrix_results) = 2
    /\ Estimated(1) /\ Estimated(2)
    /\ matrix_results[1].size = 200 /\ matrix_results[2].size = 200
    /\ matrix_results[1].use_vedic /\ ~matrix_results[2].use_vedic

----------------------------------------------------------------------------
(* Properties of the benchmark harness.                                     *)

\* C13: every benchmark run, whatever its count and pattern types, executes
\* exactly count operations and returns a summary: the usage counts add up
\* to count, the number of non-Standard records lies in 0..count and the
\* Vedic percentage in 0..100.
C13_BenchmarkCounts ==
    /\ outcome # "raised"
    /\ (pc = "benchmark" /\ loop.remaining = 0) =>
          /\ loop.results_len = loop.operation_count
          /\ loop.vedic_count >= 0 /\ loop.vedic_count <= loop.operation_count
    /\ (pc = "idle" /\ summary # <<>> /\ produced_by # <<>>
            /\ produced_by[Len(produced_by)] = "benchmark") =>
          /\ summary[1].vedic_methods_used >= 0
          /\ summary[1].vedic_methods_used <= summary[1].operation_count
          /\ summary[1].vedic_percentage.den > 0
          /\ summary[1].vedic_percentage.num >= 0
          /\ summary[1].vedic_percentage.num <= 100 * summary[1].vedic_percentage.den

\* C14: every pair a generator produces satisfies the classifier's test for
\* that generator's technique: ekadhikena pairs rule 1, antyayordasake pairs
\* rule 2, nikhilam pairs rule 3, urdhva pairs the three-digit test of rule 4.
C14_GeneratedPairsMatchTechnique ==
    /\ generated_for = "ekadhikena" => Rule1(A, B)
    /\ generated_for = "antyayordasake" => Rule2(A, B)
    /\ generated_for = "nikhilam" => Rule3(A, B)
    /\ generated_for = "urdhva" => Rule4(A, B)

----------------------------------------------------------------------------
(* Concurrent calculate requests.                                           *)

\* C15: with several calculate requests in the server, no two responses
\* carry the same operation_id, no increment is lost (once every request is
\* answered the counter equals the number of requests), and no request
\* waits for another to complete: a request that is not yet answered is
\* never held back by another request's handler being in progress.
C15_ConcurrentCalculate ==
    /\ \A s \in DOMAIN tasks : \A t \in DOMAIN tasks :
          (s # t /\ tasks[s].result_data # <<>> /\ tasks[t].result_data # <<>>)
          => tasks[s].result_data[1].operation_id # tasks[t].result_data[1].operation_id
    /\ (\A t \in DOMAIN tasks : tasks[t].position = "done") => operation_counter = Len(tasks)
    /\ \A t \in DOMAIN tasks : tasks[t].position # "done" => running \in {0, t}

----------------------------------------------------------------------------
(* Timing, speedup and the remaining classifier rules.                      *)

\* C16: within one _simulate_vedic_operation call the first clock reading
\* is taken after classification and the second right after the
\* arithmetic, so that execution_time_ms covers the arithmetic only.
C16_IntervalCoversArithmeticOnly ==
    Executed => last_record[1].execution_time_ms = {"compute_result"}

\* Ten times the baseline speedup of a technique: 3.2, 2.8, 2.3, 1.8, and
\* 1.0 for Standard and for every other technique.
BaselineTenths(technique) ==
    IF technique = EKADHIKENA_PURVENA THEN 32
    ELSE IF technique = NIKHILAM THEN 28
    ELSE IF technique = ANTYAYORDASAKE THEN 23
    ELSE IF technique = URDHVA_TIRYAGBHYAM THEN 18
    ELSE 10

\* 0.8 * baseline <= x <= 1.2 * baseline, and x > 0
WithinJitter(x, technique) ==
    /\ x.den > 0
    /\ x.num > 0
    /\ 8 * BaselineTenths(technique) * x.den <= 100 * x.num
    /\ 100 * x.num <= 12 * BaselineTenths(technique) * x.den

\* C17: the actual_speedup of every record lies within 20% of a baseline
\* that depends on the selected technique only (1.0 for Standard), so it is
\* positive; a technique missing from the table gets the baseline 1.0.
C17_ActualSpeedupWithinJitter ==
    /\ Executed => WithinJitter(last_record[1].actual_speedup, last_record[1].selected_algorithm)
    /\ \A technique \in {PARAVARTYA_YOJAYET, DHVAJANKA} : \A variance \in Variances :
          WithinJitter(calculate_expected_speedup(technique, variance), technique)

\* A Nikhilam record carries the largest speedup the jitter allows, 2.8 * 1.2.
C17_Witness ==
    /\ Executed
    /\ last_record[1].selected_algorithm = NIKHILAM
    /\ IsRat(last_record[1].actual_speedup, 336, 100)

\* The larger digit count of the two operands.
MaxDigitCount(a, b) ==
    IF DigitCount(Abs(a)) >= DigitCount(Abs(b)) THEN DigitCount(Abs(a)) ELSE DigitCount(Abs(b))

\* C18: a pair matching none of rules 1-3 is classified Urdhva-Tiryagbhyam
\* exactly when the larger digit count is at least 3, with confidence
\* min(0.6 + 0.05 * (maxDigits - 3), 0.80), at most 0.80, and predicted
\* speedup 1.4 + 0.1 * (maxDigits - 3).
C18_CrosswiseMultiDigit ==
    (Classified /\ ~Rule1(A, B) /\ ~Rule2(A, B) /\ ~Rule3(A, B)) =>
        LET c == classified[1]
            d == MaxDigitCount(A, B)
        IN  /\ c.sutra = URDHVA_TIRYAGBHYAM <=> d >= 3
            /\ c.sutra = URDHVA_TIRYAGBHYAM =>
                  /\ IsRat(c.confidence, IF 60 + 5 * (d - 3) <= 80 THEN 60 + 5 * (d - 3) ELSE 80, 100)
                  /\ c.confidence.num * 100 <= 80 * c.confidence.den
                  /\ IsRat(c.predicted_speedup, 14 + (d - 3), 10)

\* An eight-digit operand was classified by rule 4: 0.6 + 0.05 * 5 is capped at 0.80.
C18_Witness ==
    /\ Classified
    /\ A = 12345678 /\ B = 123
    /\ classified[1].sutra = URDHVA_TIRYAGBHYAM
    /\ IsRat(classified[1].confidence, 80, 100)
    /\ IsRat(classified[1].predicted_speedup, 19, 10)

\* C19: _analyze_pattern returns for every integer pair, zero and negative
\* operands included, one of the five techniques; it returns Standard
\* Arithmetic, with confidence 1.0 and predicted speedup 1.0, exactly when
\* none of rules 1-4 holds, and then both operands have at most 2 digits.
C19_ClassifyTotal ==
    /\ pc # "start" => Classified /\ outcome = "returned"
    /\ Classified =>
          LET c == classified[1]
          IN  /\ c.sutra \in {EKADHIKENA_PURVENA, ANTYAYORDASAKE, NIKHILAM,
                              URDHVA_TIRYAGBHYAM, STANDARD}
              /\ c.sutra = STANDARD <=>
                    (~Rule1(A, B) /\ ~Rule2(A, B) /\ ~Rule3(A, B) /\ ~Rule4(A, B))
              /\ c.sutra = STANDARD =>
                    /\ IsRat(c.confidence, 1, 1)
                    /\ IsRat(c.predicted_speedup, 1, 1)
                    /\ DigitCount(Abs(A)) <= 2 /\ DigitCount(Abs(B)) <= 2

\* A pair with a zero and a negative operand was classified Standard Arithmetic.
C19_Witness ==
    /\ Classified
    /\ A = 0 /\ B = -11
    /\ classified[1].sutra = STANDARD

----------------------------------------------------------------------------
(* The gauge of calls in progress, and the benchmark generators.            *)

\* The calculate calls that have incremented the gauge and not yet left the handler.
InProgress == {t \in DOMAIN tasks : tasks[t].position \in {"counted", "simulated", "context"}}

\* C21: whether a calculate call returns or raises, at whatever statement,
\* every increment of active_operations is matched by exactly one
\* decrement: the gauge counts the calls in progress, is never negative and
\* is 0 whenever no call is in progress.
C21_ActiveOperationsBalanced ==
    /\ active_operations >= 0
    /\ active_operations = Cardinality(InProgress)
    /\ InProgress = {} => active_operations = 0

\* The running benchmark draws from ekadhikena, antyayordasake and urdhva only.
Restricted ==
    /\ pc = "benchmark"
    /\ loop.pattern_types # {}
    /\ loop.pattern_types \subseteq {"ekadhikena", "antyayordasake", "urdhva"}

\* C22: every pair of the ekadhikena, antyayordasake and urdhva generators
\* is classified to a technique other than Standard Arithmetic, so a
\* benchmark restricted to them counts every record as Vedic and returns
\* vedic_methods_used equal to the operation count and a percentage of 100;
\* a record classified Standard comes from a nikhilam or random pair.
C22_RestrictedRunAllVedic ==
    /\ [](Restricted => loop.vedic_count = loop.results_len)
    /\ []((pc \in {"benchmark", "dataset"} /\ loop.vedic_count < loop.results_len) =>
            loop.pattern_types \cap {"nikhilam", "random", "all"} # {})
    /\ [][(Restricted /\ pc' = "idle" /\ outcome' = "returned") =>
            /\ summary'[1].vedic_methods_used = summary'[1].operation_count
            /\ summary'[1].operation_count >= 10
            /\ IsRat(summary'[1].vedic_percentage, 100, 1)]_vars

\* A run restricted to antyayordasake and urdhva has finished its loop with
\* every record counted as Vedic.
C22_Witness ==
    /\ Restricted
    /\ loop.pattern_types = {"antyayordasake", "urdhva"}
    /\ loop.remaining = 0
    /\ loop.results_len = loop.operation_count
    /\ loop.vedic_count = loop.operation_count

====
